---- MODULE Spec2Model ----
(***************************************************************************)
(* Model of the Copilot usage calculation service (src/app.py).            *)
(*                                                                         *)
(* Amounts of credits are integers counting thousandths of a credit, so    *)
(* 0.05 credits is 50 and round(x, 2) rounds to a multiple of 10.          *)
(* A text is a sequence of one-character strings.  A Python dict is a      *)
(* record (the empty dict is << >>), Python's None is the record None.     *)
(***************************************************************************)
EXTENDS Integers, Sequences, FiniteSets, TLC

\* Bounds of the model.
MaxLen == 3
MaxBatch == 2

VARIABLES
    text,        \* the message text handed to the credit calculation
    padded,      \* whether the text was extended by a block of characters
    phase,       \* "input", "credits" or "words": which function was applied
    credits,     \* value returned by calculate_credits
    word_costs,  \* value returned by calculate_word_costs
    remote,      \* the reports service: report id -> its current HTTP answer
    cache,       \* lru_cache of fetch_report, most recently used entry first
    pc,          \* position of the /usage handler
    messages,    \* the batch returned by fetch_messages
    usage_data,  \* local list of process_messages
    lookups,     \* per processed message: what its report lookup did
    exc,         \* the exception raised in the handler, or None
    response,    \* the HTTP response of /usage
    call,        \* the latest direct fetch_report call and what it did
    hist_ret,    \* report id -> outcome of the latest fetch_report call for it
    hist_used,   \* report ids by recency of a call that returned, latest first
    sweep        \* the run of fetch_report calls over the filler ids in progress

credit_vars == <<text, padded, phase, credits, word_costs>>
service_vars == <<pc, messages, usage_data, lookups, exc, response>>
cache_vars == <<call, hist_ret, hist_used, sweep>>
vars == <<text, padded, phase, credits, word_costs, remote, cache, pc, messages,
          usage_data, lookups, exc, response, call, hist_ret, hist_used, sweep>>

None == [py_none |-> TRUE]

----------------------------------------------------------------------------
\* Characters and texts

Alphabet == {"a", "A", "b", " ", "1", "-"}
AsciiLetters == {"a", "A", "b"}
AsciiDigits == {"1"}

CREDIT_COSTS ==
    [base |-> 1000, char |-> 50, third_vowel |-> 300,
     length_penalty_threshold |-> 100, length_penalty |-> 5000,
     unique_word_bonus |-> -2000]

VOWELS == {"a", "A"} \cup {"e", "i", "o", "u", "E", "I", "O", "U"}

\* [a-zA-Z'-]
WORD_PATTERN(c) == c \in AsciiLetters \/ c = "'" \/ c = "-"

\* str.lower() on one character
lower(c) == IF c = "A" THEN "a" ELSE c

Reverse(s) == [k \in 1..Len(s) |-> s[Len(s) + 1 - k]]

Repeat(c, n) == [k \in 1..n |-> c]

\* the floor forgotten
MaxDropped(a, b) == b

Max(a, b) == IF a >= b THEN a ELSE b

\* round(x, 2) on thousandths: to the nearest multiple of 10, ties to even
round2(x) ==
    LET a == IF x < 0 THEN -x ELSE x
        r == a % 10
        down == a - r
        m == IF r < 5 THEN down
             ELSE IF r > 5 THEN down + 10
             ELSE IF (down \div 10) % 2 = 0 THEN down ELSE down + 10
    IN  IF x < 0 THEN -m ELSE m

\* the comparison made without lowercasing
is_palindrome_cased(t) ==
    LET keep(c) == c \in AsciiLetters \/ c \in AsciiDigits
        cleaned_text == SelectSeq(t, keep)
    IN  cleaned_text = Reverse(cleaned_text)

is_palindrome(t) ==
    LET lowered == [k \in 1..Len(t) |-> lower(t[k])]
        keep(c) == c \in AsciiLetters \/ c \in AsciiDigits
        cleaned_text == SelectSeq(lowered, keep)
    IN  cleaned_text = Reverse(cleaned_text)

\* re.findall(WORD_PATTERN, text): the maximal runs of word characters, left
\* to right
findall(t) ==
    LET starts == {k \in 1..Len(t) :
                      WORD_PATTERN(t[k]) /\ (k = 1 \/ ~WORD_PATTERN(t[k - 1]))}
        stop(k) == CHOOSE j \in k..Len(t) :
                      /\ \A m \in k..j : WORD_PATTERN(t[m])
                      /\ (j = Len(t) \/ ~WORD_PATTERN(t[j + 1]))
        rank(k) == Cardinality({s \in starts : s <= k})
    IN  [r \in 1..Cardinality(starts) |->
            LET k == CHOOSE s \in starts : rank(s) = r IN SubSeq(t, k, stop(k))]

extract_words(t) == findall(t)

calculate_third_vowel_cost(t) ==
    CREDIT_COSTS.third_vowel
        * Cardinality({k \in 1..Len(t) : k % 3 = 0 /\ t[k] \in VOWELS})

calculate_char_cost(message_length) == CREDIT_COSTS.char * message_length

category_costs == [short |-> 100, medium |-> 200, long |-> 300]

\* a medium range that stops one short
ranges_gap == [short |-> <<1, 3>>, medium |-> <<4, 6>>, long |-> <<8, -1>>]

\* (lowest, highest) length of each category; -1 stands for float("inf")
ranges == [short |-> <<1, 3>>, medium |-> <<4, 7>>, long |-> <<8, -1>>]

\* the words whose length lies in the range r
InRange(words, r) ==
    {k \in 1..Len(words) :
        r[1] <= Len(words[k]) /\ (r[2] = -1 \/ Len(words[k]) <= r[2])}

calculate_word_costs(words) ==
    Cardinality(InRange(words, ranges.short)) * category_costs.short
        + Cardinality(InRange(words, ranges.medium)) * category_costs.medium
        + Cardinality(InRange(words, ranges.long)) * category_costs.long

SetOf(s) == {s[k] : k \in 1..Len(s)}

calculate_credits(message_text) ==
    LET message_length == Len(message_text)
        words == extract_words(message_text)
        char_cost == calculate_char_cost(message_length)
        w_costs == calculate_word_costs(words)
        third_vowel_cost == calculate_third_vowel_cost(message_text)
        length_penalty ==
            IF message_length > CREDIT_COSTS.length_penalty_threshold
            THEN CREDIT_COSTS.length_penalty ELSE 0
        unique_word_bonus ==
            IF Cardinality(SetOf(words)) = Len(words)
            THEN CREDIT_COSTS.unique_word_bonus ELSE 0
        total_cost ==
            CREDIT_COSTS.base + char_cost + w_costs + third_vowel_cost
                + length_penalty + unique_word_bonus
        doubled == IF is_palindrome(message_text) THEN total_cost * 2 ELSE total_cost
    IN  Max(1000, round2(doubled))

----------------------------------------------------------------------------
\* The reports service and the cached lookup

maxsize == 100

ReportIds == {"r1", "r2"}
FillerIds == {ToString(k) : k \in 1..maxsize}

SampleReport == [name |-> "Sample Report", credit_cost |-> 10000]
NamelessReport == [name |-> "", credit_cost |-> 555]
OtherReport == [name |-> "Other", credit_cost |-> 2000]
CostlessReport == [name |-> "Draft"]

Ok(body) == [status |-> 200, json |-> body]
Status(code) == [status |-> code]
RequestError == [request_error |-> TRUE]

\* what the reports service may answer for r1 and for r2
Answers ==
    [r1 |-> {Ok(SampleReport), Ok(NamelessReport), Ok(CostlessReport), Ok(<<>>),
             Status(404), Status(403), Status(500), Status(204), RequestError},
     r2 |-> {Ok(OtherReport)}]

\* requests.get(report_url): the filler ids always answer 404
requests_get(rem, report_id) ==
    IF report_id \in DOMAIN rem THEN rem[report_id] ELSE Status(404)

Return(v) == [raised |-> FALSE, value |-> v]
Raise(type, msg) == [raised |-> TRUE, value |-> [type |-> type, msg |-> msg]]

\* the body of fetch_report, without its cache
fetch_report_body(report_id, rem) ==
    LET resp == requests_get(rem, report_id)
    IN  IF "request_error" \in DOMAIN resp
        THEN Raise("Exception", "Failed to fetch report " \o report_id
                                    \o " due to an HTTP request error.")
        ELSE IF resp.status = 200 THEN Return(resp.json)
        ELSE IF resp.status = 404 THEN Return(None)
        ELSE IF resp.status = 403
        THEN Raise("Exception", "Access to report details is forbidden.")
        ELSE IF resp.status >= 500
        THEN Raise("Exception", "The reports service is currently unavailable.")
        ELSE Raise("Exception", "Unexpected error for report_id " \o report_id \o ".")

\* a lookup that takes any entry for the key's
cache_index_any(c, key) == 1..Len(c)

\* functools.lru_cache: entries [key, val], most recently used first
cache_index(c, key) == {k \in 1..Len(c) : c[k].key = key}

cache_without(c, key) ==
    LET other(e) == e.key # key IN SelectSeq(c, other)

\* an eviction that keeps one entry too few
cache_insert_small(c, key, val) ==
    LET grown == <<[key |-> key, val |-> val]>> \o cache_without(c, key)
    IN  IF Len(grown) > maxsize - 1 THEN SubSeq(grown, 1, maxsize - 1) ELSE grown

cache_insert(c, key, val) ==
    LET grown == <<[key |-> key, val |-> val]>> \o cache_without(c, key)
    IN  IF Len(grown) > maxsize THEN SubSeq(grown, 1, maxsize) ELSE grown

\* fetch_report under @lru_cache(maxsize=100): the outcome, whether a remote
\* request was issued, and the cache afterwards
fetch_report(report_id, c, rem) ==
    IF cache_index(c, report_id) # {}
    THEN LET val == c[CHOOSE k \in cache_index(c, report_id) : TRUE].val
         IN  [outcome |-> Return(val), requested |-> FALSE,
              cache |-> cache_insert(c, report_id, val)]
    ELSE LET o == fetch_report_body(report_id, rem)
         IN  [outcome |-> o, requested |-> TRUE,
              cache |-> IF o.raised THEN c ELSE cache_insert(c, report_id, o.value)]

\* truth value of a dict or None
Truthy(d) == d # None /\ DOMAIN d # {}

\* dict.get(key) of a string value, boxed so that None can stand beside it
get_str(d, key) == IF key \in DOMAIN d THEN [str |-> d[key]] ELSE None

get_num(d, key, default) == IF key \in DOMAIN d THEN d[key] ELSE default

\* truth value of a boxed string or None
TruthyStr(s) == s # None /\ s.str # ""

\* a fallback that charges the default cost of a report without credit_cost
process_report_zero_fallback(report_id, message_text, c, rem) ==
    LET f == fetch_report(report_id, c, rem)
        report_data == f.outcome.value
    IN  IF f.outcome.raised
        THEN [raised |-> TRUE, value |-> f.outcome.value, fetched |-> f]
        ELSE IF Truthy(report_data)
        THEN [raised |-> FALSE, fetched |-> f,
              value |-> [report_name |-> get_str(report_data, "name"),
                         credits_used |-> get_num(report_data, "credit_cost", 0)]]
        ELSE [raised |-> FALSE, fetched |-> f,
              value |-> [report_name |-> None, credits_used |-> 0]]

\* a failed lookup handled like a report that was not found
process_report_swallowing(report_id, message_text, c, rem) ==
    LET f == fetch_report(report_id, c, rem)
        report_data == f.outcome.value
    IN  IF ~f.outcome.raised /\ Truthy(report_data)
        THEN [raised |-> FALSE, fetched |-> f,
              value |-> [report_name |-> get_str(report_data, "name"),
                         credits_used |-> get_num(report_data, "credit_cost", 0)]]
        ELSE [raised |-> FALSE, fetched |-> f,
              value |-> [report_name |-> None,
                         credits_used |-> calculate_credits(message_text)]]

process_report(report_id, message_text, c, rem) ==
    LET f == fetch_report(report_id, c, rem)
        report_data == f.outcome.value
    IN  IF f.outcome.raised
        THEN [raised |-> TRUE, value |-> f.outcome.value, fetched |-> f]
        ELSE IF Truthy(report_data)
        THEN [raised |-> FALSE, fetched |-> f,
              value |-> [report_name |-> get_str(report_data, "name"),
                         credits_used |-> get_num(report_data, "credit_cost", 0)]]
        ELSE [raised |-> FALSE, fetched |-> f,
              value |-> [report_name |-> None,
                         credits_used |-> calculate_credits(message_text)]]

\* a message of the batch that is no dict
NotADict == [py_not_a_dict |-> TRUE]
isinstance_dict(message) == "py_not_a_dict" \notin DOMAIN message

KeyError(key) == Raise("ValueError", "Missing key in message: '" \o key \o "'")

NoLookup == [called |-> FALSE]
Lookup(f) == [called |-> TRUE, outcome |-> f.outcome, requested |-> f.requested]

usage_entry(message, r) ==
    IF TruthyStr(r.report_name)
    THEN [message_id |-> message.id, timestamp |-> message.timestamp,
          credits_used |-> r.credits_used, report_name |-> r.report_name.str]
    ELSE [message_id |-> message.id, timestamp |-> message.timestamp,
          credits_used |-> r.credits_used]

\* the text read only after the report was looked up
process_message_late_text(message, c, rem) ==
    LET fail(o) == [outcome |-> o, lookup |-> NoLookup, cache |-> c]
        has(key) == key \in DOMAIN message
    IN  IF ~isinstance_dict(message)
        THEN fail(Raise("ValueError", "Invalid message format"))
        ELSE IF ~has("id") THEN fail(KeyError("id"))
        ELSE IF ~has("timestamp") THEN fail(KeyError("timestamp"))
        ELSE IF has("report_id") /\ message.report_id # ""
        THEN IF ~has("text")
             THEN LET f == fetch_report(message.report_id, c, rem)
                  IN  [outcome |-> IF f.outcome.raised THEN f.outcome ELSE KeyError("text"),
                       lookup |-> Lookup(f), cache |-> f.cache]
             ELSE LET p == process_report(message.report_id, message.text, c, rem)
                  IN  [outcome |-> IF p.raised THEN [raised |-> TRUE, value |-> p.value]
                                   ELSE Return(usage_entry(message, p.value)),
                       lookup |-> Lookup(p.fetched),
                       cache |-> p.fetched.cache]
        ELSE IF ~has("text") THEN fail(KeyError("text"))
        ELSE [outcome |-> Return(usage_entry(message,
                              [report_name |-> None,
                               credits_used |-> calculate_credits(message.text)])),
              lookup |-> NoLookup, cache |-> c]

\* process_message: the outcome (a usage entry or a raised exception), the
\* report lookup it made and the cache afterwards
process_message(message, c, rem) ==
    LET fail(o) == [outcome |-> o, lookup |-> NoLookup, cache |-> c]
        has(key) == key \in DOMAIN message
    IN  IF ~isinstance_dict(message)
        THEN fail(Raise("ValueError", "Invalid message format"))
        ELSE IF ~has("id") THEN fail(KeyError("id"))
        ELSE IF ~has("timestamp") THEN fail(KeyError("timestamp"))
        ELSE IF has("report_id") /\ message.report_id # ""
        THEN IF ~has("text") THEN fail(KeyError("text"))
             ELSE LET p == process_report(message.report_id, message.text, c, rem)
                  IN  [outcome |-> IF p.raised THEN [raised |-> TRUE, value |-> p.value]
                                   ELSE Return(usage_entry(message, p.value)),
                       lookup |-> Lookup(p.fetched),
                       cache |-> p.fetched.cache]
        ELSE IF ~has("text") THEN fail(KeyError("text"))
        ELSE [outcome |-> Return(usage_entry(message,
                              [report_name |-> None,
                               credits_used |-> calculate_credits(message.text)])),
              lookup |-> NoLookup, cache |-> c]

\* fetch_messages on the answer of the messages service
fetch_messages(answer) ==
    IF "request_error" \in DOMAIN answer
    THEN Raise("Exception", "Failed to fetch messages due to an HTTP request error.")
    ELSE IF "invalid_json" \in DOMAIN answer
    THEN Raise("Exception", "Invalid JSON response from messages API.")
    ELSE Return(IF "messages" \in DOMAIN answer.json THEN answer.json.messages ELSE <<>>)

\* the except clauses of usage; an exception they do not catch leaves the
\* view and the framework answers 500
usage_except(e) ==
    IF e.type = "ValueError" THEN [status |-> 400, json |-> [error |-> e.msg]]
    ELSE IF e.type = "RequestException"
    THEN [status |-> 503, json |-> [error |-> "Failed to fetch data from external service."]]
    ELSE [status |-> 500]

----------------------------------------------------------------------------
\* Inputs

Texts == UNION {[1..n -> Alphabet] : n \in 0..MaxLen}

\* lengths of the block of one character a text may be extended by
BlockLens == {4, CREDIT_COSTS.length_penalty_threshold}

Timestamp == "2024-01-01T00:00:00Z"
MessageTexts == {<<>>, <<"a", "b", " ", "a", "b">>}

Field(present, key, v) == IF present THEN key :> v ELSE <<>>

\* messages with every required field
CompleteMessages ==
    {[id |-> 1, timestamp |-> Timestamp, text |-> t] : t \in MessageTexts}
    \cup {[id |-> 1, timestamp |-> Timestamp, text |-> t, report_id |-> "r1"] :
            t \in MessageTexts}
    \cup {[id |-> 1, timestamp |-> Timestamp, text |-> <<"a", "b", " ", "a", "b">>,
           report_id |-> r] : r \in {"", "r2"}}

\* messages lacking one of id, timestamp, text, or all of them
IncompleteMessages ==
    {Field(f[1], "id", 1) @@ Field(f[2], "timestamp", Timestamp)
        @@ Field(f[3], "text", <<"a", "b", " ", "a", "b">>)
        @@ Field(f[4], "report_id", "r1") :
        f \in {g \in [1..4 -> BOOLEAN] :
                  \/ Cardinality({k \in 1..3 : ~g[k]}) = 1
                  \/ \A k \in 1..4 : ~g[k]}}

Messages == CompleteMessages \cup IncompleteMessages \cup {NotADict}

Batches == UNION {[1..n -> Messages] : n \in 0..MaxBatch}

\* what the messages service may answer
MessagesAnswers ==
    {[request_error |-> TRUE], [invalid_json |-> TRUE], [json |-> <<>>]}
    \cup {[json |-> [messages |-> b]] : b \in Batches}

----------------------------------------------------------------------------
\* Initial states

InitCredits ==
    /\ padded = FALSE
    /\ phase = "input"
    /\ credits = 0
    /\ word_costs = 0

InitService ==
    /\ cache = <<>>
    /\ pc = "idle"
    /\ messages = <<>>
    /\ usage_data = <<>>
    /\ lookups = <<>>
    /\ exc = None
    /\ response = None

InitCalls ==
    /\ call = None
    /\ hist_ret = [r \in ReportIds \cup FillerIds |-> None]
    /\ hist_used = <<>>
    /\ sweep = [next |-> 1, last |-> 0]

InitRemote == remote \in [r1 : Answers.r1, r2 : Answers.r2]

Init ==
    /\ text = <<>>
    /\ InitCredits /\ InitService /\ InitCalls /\ InitRemote

\* the answers of the reports service for r1 while fetch_report is called
\* directly: a report, not found, and one of each kind of failure
CallAnswers ==
    {Ok(SampleReport), Status(404), Status(403), Status(500), Status(204), RequestError}

InitCalled ==
    /\ text = <<>>
    /\ InitCredits /\ InitService /\ InitCalls
    /\ remote \in [r1 : CallAnswers, r2 : Answers.r2]

InitText ==
    /\ text \in Texts
    /\ InitCredits /\ InitService /\ InitCalls
    /\ remote = [r1 |-> Status(404), r2 |-> Status(404)]

----------------------------------------------------------------------------
\* The credit calculation applied to a text

extend_text(c, n) ==
    /\ phase = "input" /\ ~padded
    /\ text' = text \o Repeat(c, n)
    /\ padded' = TRUE
    /\ UNCHANGED <<phase, credits, word_costs, remote, cache, service_vars, cache_vars>>

call_calculate_credits ==
    /\ phase = "input"
    /\ credits' = calculate_credits(text)
    /\ phase' = "credits"
    /\ UNCHANGED <<text, padded, word_costs, remote, cache, service_vars, cache_vars>>

call_calculate_word_costs ==
    /\ phase = "input"
    /\ word_costs' = calculate_word_costs(extract_words(text))
    /\ phase' = "words"
    /\ UNCHANGED <<text, padded, credits, remote, cache, service_vars, cache_vars>>

NextCredits ==
    \/ \E c \in Alphabet, n \in BlockLens : extend_text(c, n)
    \/ call_calculate_credits
    \/ call_calculate_word_costs

SpecCredits == InitText /\ [][NextCredits]_vars

----------------------------------------------------------------------------
\* The /usage handler

\* the reports service changes its answer for a report id; between two
\* lookups of one batch a change shows no more than a change before the batch
RemoteChange(r, answer) ==
    /\ pc = "idle"
    /\ answer # remote[r]
    /\ remote' = [remote EXCEPT ![r] = answer]
    /\ UNCHANGED <<credit_vars, cache, service_vars, cache_vars>>

\* usage: fetch_messages, then process_messages starts on the batch
usage_fetch_messages(answer) ==
    /\ pc = "idle"
    /\ LET m == fetch_messages(answer)
       IN  IF m.raised
           THEN /\ exc' = m.value
                /\ response' = usage_except(m.value)
                /\ pc' = "responded"
                /\ messages' = <<>>
           ELSE /\ messages' = m.value
                /\ pc' = "processing"
                /\ UNCHANGED <<exc, response>>
    /\ UNCHANGED <<credit_vars, remote, cache, usage_data, lookups, cache_vars>>

\* process_messages: one turn of its loop, process_message on the next message
process_messages_step ==
    /\ pc = "processing"
    /\ Len(lookups) < Len(messages)
    /\ LET p == process_message(messages[Len(lookups) + 1], cache, remote)
       IN  /\ cache' = p.cache
           /\ lookups' = Append(lookups, p.lookup)
           /\ IF p.outcome.raised
              THEN /\ exc' = p.outcome.value
                   /\ response' = usage_except(p.outcome.value)
                   /\ pc' = "responded"
                   /\ UNCHANGED usage_data
              ELSE /\ usage_data' = Append(usage_data, p.outcome.value)
                   /\ UNCHANGED <<exc, response, pc>>
    /\ UNCHANGED <<credit_vars, remote, messages, cache_vars>>

\* process_messages returns usage_data and usage answers with it
usage_return ==
    /\ pc = "processing"
    /\ Len(lookups) = Len(messages)
    /\ response' = [status |-> 200, json |-> [usage |-> usage_data]]
    /\ pc' = "responded"
    /\ UNCHANGED <<credit_vars, remote, cache, messages, usage_data, lookups, exc, cache_vars>>

\* the request is over; the next one starts with fresh locals
next_request ==
    /\ pc = "responded"
    /\ pc' = "idle"
    /\ messages' = <<>>
    /\ usage_data' = <<>>
    /\ lookups' = <<>>
    /\ exc' = None
    /\ response' = None
    /\ UNCHANGED <<credit_vars, remote, cache, cache_vars>>

NextStable ==
    \/ \E answer \in MessagesAnswers : usage_fetch_messages(answer)
    \/ process_messages_step
    \/ usage_return
    \/ next_request

Next ==
    \/ NextStable
    \/ \E r \in ReportIds : \E answer \in Answers[r] : RemoteChange(r, answer)

Spec == Init /\ [][Next]_vars

SpecStable == Init /\ [][NextStable]_vars

----------------------------------------------------------------------------
\* fetch_report called directly, any number of times in one process

Recent(used) == {used[k] : k \in {j \in 1..Len(used) : j <= maxsize}}

Without(used, drop) ==
    LET kept(x) == x \notin drop IN SelectSeq(used, kept)

\* one call of fetch_report, and what is remembered of the calls so far
fetch_report_called(id) ==
    LET f == fetch_report(id, cache, remote)
    IN  /\ cache' = f.cache
        /\ call' = [id |-> id, outcome |-> f.outcome, requested |-> f.requested,
                    recent |-> id \in Recent(hist_used), before |-> hist_ret[id]]
        /\ hist_ret' = [hist_ret EXCEPT ![id] = f.outcome]
        /\ hist_used' = IF f.outcome.raised THEN hist_used
                        ELSE <<id>> \o Without(hist_used, {id})

\* fetch_report for one of the report ids
call_fetch_report(id) ==
    /\ pc = "idle"
    /\ sweep.next > sweep.last
    /\ fetch_report_called(id)
    /\ UNCHANGED <<credit_vars, remote, service_vars, sweep>>

\* a caller starts on the filler ids "1", ..., "n" (each answers 404)
fillers_start(n) ==
    /\ pc = "idle"
    /\ sweep.next > sweep.last
    /\ sweep' = [next |-> 1, last |-> n]
    /\ UNCHANGED <<credit_vars, remote, cache, service_vars, call, hist_ret, hist_used>>

\* fetch_report for the next filler id
call_fetch_report_filler ==
    /\ sweep.next <= sweep.last
    /\ fetch_report_called(ToString(sweep.next))
    /\ sweep' = [sweep EXCEPT !.next = @ + 1]
    /\ UNCHANGED <<credit_vars, remote, service_vars>>

\* the reports service changes its answer between two calls
RemoteChangeBetweenCalls(r, answer) ==
    /\ sweep.next > sweep.last
    /\ RemoteChange(r, answer)

NextCache ==
    \/ \E id \in ReportIds : call_fetch_report(id)
    \/ \E n \in {maxsize - 1, maxsize} : fillers_start(n)
    \/ call_fetch_report_filler
    \/ \E answer \in CallAnswers : RemoteChangeBetweenCalls("r1", answer)

SpecCache == InitCalled /\ [][NextCache]_vars

----------------------------------------------------------------------------
\* Properties of the credit calculation (checked under SpecCredits)

\* cost of one word by its length: 0.1 up to 3, 0.2 up to 7, 0.3 from 8 on
BucketCost(n) == IF n <= 3 THEN 100 ELSE IF n <= 7 THEN 200 ELSE 300

RECURSIVE SumBucketCosts(_)
SumBucketCosts(words) ==
    IF words = <<>> THEN 0
    ELSE BucketCost(Len(Head(words))) + SumBucketCosts(Tail(words))

RECURSIVE PositionalVowelHits(_, _)
PositionalVowelHits(t, k) ==
    IF k > Len(t) THEN 0
    ELSE (IF t[k] \in {"a", "e", "i", "o", "u", "A", "E", "I", "O", "U"} THEN 1 ELSE 0)
            + PositionalVowelHits(t, k + 3)

AllDistinct(words) ==
    \A m, n \in 1..Len(words) : m # n => words[m] # words[n]

\* the text reads the same in both directions once lowercased and stripped of
\* every character that is no letter and no digit
PalindromeAfterCleaning(t) ==
    LET alnum(c) == c \in AsciiLetters \cup AsciiDigits
        kept == SelectSeq(t, alnum)
        n == Len(kept)
    IN  \A r \in 1..n : lower(kept[r]) = lower(kept[n + 1 - r])

\* the total before rounding and floor
ClaimedTotal(t) ==
    LET words == extract_words(t)
        total == 1000 + 50 * Len(t) + SumBucketCosts(words)
                    + 300 * PositionalVowelHits(t, 3)
                    + (IF Len(t) > 100 THEN 5000 ELSE 0)
                    + (IF AllDistinct(words) THEN -2000 ELSE 0)
    IN  IF PalindromeAfterCleaning(t) THEN 2 * total ELSE total

ClaimedCredits(t) ==
    IF round2(ClaimedTotal(t)) > 1000 THEN round2(ClaimedTotal(t)) ELSE 1000

\* C1: for every text, calculate_credits returns at least 1 credit.
C1_CreditsAtLeastOne == phase = "credits" => credits >= 1000

\* a non-empty palindrome whose total before the floor is negative
C1_Witness ==
    /\ phase = "credits"
    /\ Len(text) > 0
    /\ PalindromeAfterCleaning(text)
    /\ ClaimedTotal(text) < 0
    /\ credits = 1000


\* C8: calculate_credits returns max(1, round(total, 2)), total being 1 + 0.05 x
\* length + the word cost + 0.3 x the positional vowel hits + 5 when the length
\* exceeds 100 - 2 when all extracted words are distinct, doubled before the
\* rounding exactly when the text is a palindrome after lowercasing and removing
\* the non-alphanumeric characters.
C8_CreditsFormula == phase = "credits" => credits = ClaimedCredits(text)

\* a doubled total with the length penalty and vowel hits in it
C8_Witness ==
    /\ phase = "credits"
    /\ Len(text) > 100
    /\ PalindromeAfterCleaning(text)
    /\ text[1] = "A"
    /\ PositionalVowelHits(text, 3) > 0
    /\ credits > 1000

----------------------------------------------------------------------------
\* Properties of the /usage handler (checked under Spec and SpecStable)

Required == {"id", "timestamp", "text"}

\* a Report: a dict with a name and a credit_cost
IsReport(v) == v # None /\ DOMAIN v = {"name", "credit_cost"}

Returned(l) == l.called /\ ~l.outcome.raised
Failed(l) == l.called /\ l.outcome.raised

\* C2: when the report lookup of a message returns a Report, the usage record
\* has the Report's credit_cost as credits_used and the Report's name as
\* report_name.
C2_ReportOverride ==
    \A k \in 1..Len(lookups) :
        (Returned(lookups[k]) /\ IsReport(lookups[k].outcome.value)) =>
            /\ k <= Len(usage_data)
            /\ usage_data[k].credits_used = lookups[k].outcome.value.credit_cost
            /\ "report_name" \in DOMAIN usage_data[k]
            /\ usage_data[k].report_name = lookups[k].outcome.value.name

\* C3: when the report lookup of a message returns not-found, the usage record
\* has calculate_credits of the message's text as credits_used and no
\* report_name; the same holds for a message without report_id, for which no
\* lookup is made.
C3_Fallback ==
    \A k \in 1..Len(lookups) :
        LET m == messages[k]
            l == lookups[k]
            local == /\ k <= Len(usage_data)
                     /\ usage_data[k].credits_used = calculate_credits(m.text)
                     /\ "report_name" \notin DOMAIN usage_data[k]
        IN  /\ (Returned(l) /\ l.outcome.value = None) => local
            /\ (isinstance_dict(m) /\ Required \subseteq DOMAIN m
                    /\ "report_id" \notin DOMAIN m) => (~l.called /\ local)

\* a lookup answered 404 and a message without report_id, in one batch
C3_Witness ==
    /\ Len(usage_data) = 2
    /\ Returned(lookups[1]) /\ lookups[1].requested /\ lookups[1].outcome.value = None
    /\ "report_id" \notin DOMAIN messages[2]
    /\ usage_data[1].credits_used = 1450
    /\ usage_data[2].credits_used = 1000

NoUsageReturned == response # None /\ response.status # 200 /\ "json" \notin DOMAIN response

\* C4: when the report lookup of a message signals a failure, no usage record
\* is made for that message, the failure reaches the caller of process_messages
\* and no usage record of the batch is returned.
C4_LookupFailureAborts ==
    \A k \in 1..Len(lookups) :
        Failed(lookups[k]) =>
            /\ Len(usage_data) < k
            /\ pc = "responded"
            /\ exc = lookups[k].outcome.value
            /\ NoUsageReturned

\* the lookup of the second message fails after the first got its record
C4_Witness ==
    /\ Len(lookups) = 2
    /\ Failed(lookups[2])
    /\ Len(usage_data) = 1
    /\ exc.msg = "Access to report details is forbidden."

FetchMessagesFailed == pc = "responded" /\ exc # None /\ Len(lookups) = 0
ReportLookupFailed == Len(lookups) > 0 /\ Failed(lookups[Len(lookups)])

\* C5: /usage answers 400 with the error message on a malformed-input error,
\* and 503 on an upstream fetch failure (fetching the batch, or a report lookup).
C5_ErrorResponses ==
    pc = "responded" =>
        /\ (exc # None /\ exc.type = "ValueError")
               => response = [status |-> 400, json |-> [error |-> exc.msg]]
        /\ (FetchMessagesFailed \/ ReportLookupFailed) => response.status = 503

\* C6: a message lacking id, timestamp or text makes process_message raise a
\* ValueError naming a missing field; no usage record is made and no report
\* lookup, whether or not the message carries a report_id.
C6_MissingField ==
    \A k \in 1..Len(lookups) :
        LET m == messages[k]
        IN  (isinstance_dict(m) /\ ~(Required \subseteq DOMAIN m)) =>
                /\ pc = "responded"
                /\ exc # None
                /\ exc.type = "ValueError"
                /\ \E f \in Required \ DOMAIN m :
                       exc.msg = "Missing key in message: '" \o f \o "'"
                /\ Len(usage_data) < k
                /\ ~lookups[k].called

\* a message with a report_id and no text, after a message that got its record
C6_Witness ==
    /\ Len(lookups) = 2
    /\ DOMAIN messages[2] = {"id", "timestamp", "report_id"}
    /\ exc # None
    /\ exc.msg = "Missing key in message: 'text'"
    /\ Len(usage_data) = 1

\* the usage record of message m processed as the batch [m] from cache c
Alone(m, c) == process_message(m, c, remote).outcome

----------------------------------------------------------------------------
\* Properties of the cached fetch_report (checked under SpecCache)

\* C10: a call for an id whose latest call returned a result, while the id is
\* among the 100 ids most recently used, returns that result and issues no
\* remote request; a call that raised stored nothing, and the next call for
\* its id issues a remote request.
C10_CachedLookups ==
    call # None =>
        /\ (call.before # None /\ ~call.before.raised /\ call.recent)
               => (call.outcome = call.before /\ ~call.requested)
        /\ (call.before # None /\ call.before.raised) => call.requested
        /\ call.outcome.raised => cache_index(cache, call.id) = {}

\* r1 is the least recent of 100 cached ids, the service has turned to 500 for
\* it, and the call for it is served from the cache
C10_Witness ==
    /\ call # None
    /\ call.id = "r1"
    /\ call.before = Return(SampleReport)
    /\ call.outcome = Return(SampleReport)
    /\ ~call.requested
    /\ remote.r1 = Status(500)
    /\ Len(cache) = maxsize
    /\ Len(hist_used) = maxsize

====
